---- MODULE Spec2Model ----
(***************************************************************************)
(* Promotion ("publicidad") module of mascotas_node.                       *)
(*                                                                         *)
(* src/src/promotion/routes.ts holds the five request handlers, and        *)
(* src/unnamed/part_000 the mongoose schema of a promotion document.       *)
(* The handlers call collaborators whose code is not part of the sources:  *)
(* ./service (list, create, read, invalidate), ../user/service             *)
(* (hasPermission), ../image/service (create) and the onlyLoggedIn         *)
(* middleware. Those are modelled from the specification: list answers the *)
(* enabled documents, create validates a new document against the schema   *)
(* and inserts it, read looks a document up by id whatever its flag,       *)
(* invalidate sets enabled to false, hasPermission rejects a user without  *)
(* the role. The image store is free to answer any identifier, none or an  *)
(* empty one included.                                                     *)
(*                                                                         *)
(* Strings are sequences of one-character strings, so that the schema's    *)
(* trim setter is computed and not assumed. A response is one record of a  *)
(* fixed shape; the handler of a request runs as one action, because every *)
(* collaborator call of a handler is a single-document operation and no    *)
(* handler keeps state between its awaits.                                 *)
(***************************************************************************)
EXTENDS Naturals, Sequences, FiniteSets

VARIABLES
    publicities,    \* the "publicities" collection: document i has id i
    created,        \* history: created[i] is the text of the request body that made document i
    images,         \* the image store: the identifiers under which it wrote an image
    res             \* the last request and the response to it

vars == <<publicities, created, images, res>>

----------------------------------------------------------------------------
(* Bounds *)

MaxPromotions == 2      \* documents the collection may hold

----------------------------------------------------------------------------
(* Values *)

Absent == <<"undefined">>           \* a body field that was not sent
NoOwner == "undefined"
Anonymous == "anonymous"            \* a request without a session

Users == {"u1", "u2"}
Callers == Users \cup {Anonymous}

\* the roles the identity collaborator knows: u1 is an admin, u2 is not
Permissions(u) == IF u = "u1" THEN {"user", "admin"} ELSE IF u = "u2" THEN {"user"} ELSE {}

Titles == {Absent, <<" ">>, <<" ", "a">>}
Descriptions == {<<>>, <<"d", " ">>}
RedirectLinks == {Absent, <<"l">>}
ImageIds == {Absent, <<"i">>}
Owners == {NoOwner, "u1"}
EnabledInputs == {"undefined", "true", "false"}

\* the request bodies of POST /v1/promotion
Bodies ==
    [title : Titles, description : Descriptions, redirectLink : RedirectLinks,
     imageId : ImageIds, owner : Owners, enabled : EnabledInputs]

\* the text fields of a request body, as sent
TextOf(body) ==
    [title |-> body.title, description |-> body.description,
     redirectLink |-> body.redirectLink, imageId |-> body.imageId]

\* :promotionId of a request; 0 is never the id of a document
RequestIds == 0..MaxPromotions

\* what the image store may answer as the identifier of a written image
StoreAnswers == {Absent, <<>>, <<"j">>}

----------------------------------------------------------------------------
(* The schema: src/unnamed/part_000 *)

RECURSIVE TrimLeft(_)
TrimLeft(s) ==
    IF s # <<>> /\ Head(s) = " " THEN TrimLeft(Tail(s)) ELSE s

RECURSIVE TrimRight(_)
TrimRight(s) ==
    IF s # <<>> /\ s[Len(s)] = " " THEN TrimRight(SubSeq(s, 1, Len(s) - 1)) ELSE s

\* a setter that keeps the blanks
TrimNothing(s) == s

\* trim: true
Trim(s) == TrimRight(TrimLeft(s))

\* a String path: default "", trim: true
StringPath(v) == IF v = Absent THEN <<>> ELSE Trim(v)

\* a default of false
EnabledDefaultFalse == FALSE

\* enabled: { type: Boolean, default: true }
EnabledDefault == TRUE

\* a String path without its required rule
NotRequired(v) == TRUE

\* required on a String path: the value must be a non-empty string
RequiredString(v) == v # Absent /\ Len(v) > 0

\* required on the owner path
RequiredOwner(o) == o # NoOwner

SchemaPaths == <<"title", "description", "redirectLink", "imageId", "owner">>

PathValid(doc, p) ==
    CASE p = "title" -> RequiredString(doc.title)
      [] p = "description" -> RequiredString(doc.description)
      [] p = "redirectLink" -> RequiredString(doc.redirectLink)
      [] p = "imageId" -> RequiredString(doc.imageId)
      [] p = "owner" -> RequiredOwner(doc.owner)

RECURSIVE FailingPaths(_, _)
FailingPaths(doc, paths) ==
    IF paths = <<>> THEN <<>>
    ELSE IF PathValid(doc, Head(paths))
         THEN FailingPaths(doc, Tail(paths))
         ELSE <<Head(paths)>> \o FailingPaths(doc, Tail(paths))

\* a validation that stops at the first failing path
ValidateFirst(doc) ==
    IF FailingPaths(doc, SchemaPaths) = <<>> THEN <<>>
    ELSE <<Head(FailingPaths(doc, SchemaPaths))>>

\* the validation of a document against PublicitySchema: the failing paths
Validate(doc) == FailingPaths(doc, SchemaPaths)

\* service.create(req.body): a new document of the model Publicity, filled from
\* the body it is given (the handler hands over nothing else, the caller's id
\* included, so the owner is the body's). A promotion starts enabled: the flag
\* comes from the schema default and the body's enabled field is not copied.
NewPublicity(body) ==
    [title |-> StringPath(body.title),
     description |-> StringPath(body.description),
     redirectLink |-> StringPath(body.redirectLink),
     imageId |-> StringPath(body.imageId),
     owner |-> body.owner,
     enabled |-> EnabledDefault]

----------------------------------------------------------------------------
(* The collaborators *)

\* token/passport onlyLoggedIn: the request carries a session
OnlyLoggedIn(u) == u # Anonymous

\* user/service hasPermission(userId, role)
HasPermission(u, role) == role \in Permissions(u)

Ids == 1..Len(publicities)

\* promotion/service list(): the ids of the enabled documents, in store order
RECURSIVE EnabledFrom(_)
EnabledFrom(i) ==
    IF i > Len(publicities) THEN <<>>
    ELSE IF publicities[i].enabled THEN <<i>> \o EnabledFrom(i + 1)
         ELSE EnabledFrom(i + 1)

ServiceList == EnabledFrom(1)

\* promotion/service read(id): the document exists
ServiceFound(id) == id \in Ids

\* promotion/service invalidate(id): the collection after it
ServiceInvalidate(id) == [publicities EXCEPT ![id].enabled = FALSE]

----------------------------------------------------------------------------
(* Responses *)

\* op, caller: the request; id: its :promotionId, or the id a create answers;
\* sent: the text of the body handed to service.create; answer: what the image
\* store answered; wasEnabled: the flag of the document before a remove; calls:
\* the collaborator calls the handler made, in order; status, docs, image,
\* errors: the response
NoText == [title |-> Absent, description |-> Absent, redirectLink |-> Absent, imageId |-> Absent]

NoResponse ==
    [op |-> "none", caller |-> Anonymous, status |-> "none", id |-> 0, sent |-> NoText,
     answer |-> Absent, wasEnabled |-> TRUE, docs |-> <<>>, image |-> Absent, errors |-> <<>>, calls |-> <<>>]

Response(op, u, status, calls) ==
    [NoResponse EXCEPT !.op = op, !.caller = u, !.status = status, !.calls = calls]

\* the fields a handler answers for a document
Project(id) ==
    [id |-> id,
     title |-> publicities[id].title,
     description |-> publicities[id].description,
     redirectLink |-> publicities[id].redirectLink,
     imageId |-> publicities[id].imageId]

\* a map that answers the first item alone
ProjectFirst(ids) ==
    IF ids = <<>> THEN <<>> ELSE <<Project(Head(ids))>>

\* result.map(item => ...)
RECURSIVE ProjectAll(_)
ProjectAll(ids) ==
    IF ids = <<>> THEN <<>> ELSE <<Project(Head(ids))>> \o ProjectAll(Tail(ids))

----------------------------------------------------------------------------
(* The handlers *)

Init ==
    /\ publicities = <<>>
    /\ created = <<>>
    /\ images = {}
    /\ res = NoResponse

\* list: GET /v1/promotion
list(u) ==
    /\ res' = [Response("list", u, "ok", <<"service.list">>)
                   EXCEPT !.docs = ProjectAll(ServiceList)]
    /\ UNCHANGED <<publicities, created, images>>

\* create without its permission check
createUnchecked(u, body) ==
    IF Validate(NewPublicity(body)) # <<>> THEN
        /\ res' = [Response("create", u, "ValidationError", <<"service.create">>)
                       EXCEPT !.sent = TextOf(body), !.errors = Validate(NewPublicity(body))]
        /\ UNCHANGED <<publicities, created, images>>
    ELSE
        /\ Len(publicities) < MaxPromotions
        /\ publicities' = Append(publicities, NewPublicity(body))
        /\ created' = Append(created, TextOf(body))
        /\ res' = [Response("create", u, "ok", <<"service.create">>)
                       EXCEPT !.sent = TextOf(body), !.id = Len(publicities) + 1]
        /\ UNCHANGED images

\* create: POST /v1/promotion
create(u, body) ==
    IF ~HasPermission(u, "admin") THEN
        /\ res' = Response("create", u, "PermissionError", <<"user.hasPermission">>)
        /\ UNCHANGED <<publicities, created, images>>
    ELSE IF Validate(NewPublicity(body)) # <<>> THEN
        /\ res' = [Response("create", u, "ValidationError",
                            <<"user.hasPermission", "service.create">>)
                       EXCEPT !.sent = TextOf(body), !.errors = Validate(NewPublicity(body))]
        /\ UNCHANGED <<publicities, created, images>>
    ELSE
        /\ Len(publicities) < MaxPromotions
        /\ publicities' = Append(publicities, NewPublicity(body))
        /\ created' = Append(created, TextOf(body))
        /\ res' = [Response("create", u, "ok", <<"user.hasPermission", "service.create">>)
                       EXCEPT !.sent = TextOf(body), !.id = Len(publicities) + 1]
        /\ UNCHANGED images

\* read behind the session check of the other routes
readLoggedIn(u, id) ==
    /\ res' = IF ~OnlyLoggedIn(u)
              THEN [Response("read", u, "Unauthorized", <<>>) EXCEPT !.id = id]
              ELSE IF ~ServiceFound(id)
              THEN [Response("read", u, "NotFound", <<"service.read">>) EXCEPT !.id = id]
              ELSE [Response("read", u, "ok", <<"service.read">>)
                        EXCEPT !.id = id, !.docs = <<Project(id)>>]
    /\ UNCHANGED <<publicities, created, images>>

\* read: GET /v1/promotion/:promotionId
read(u, id) ==
    /\ res' = IF ~ServiceFound(id)
              THEN [Response("read", u, "NotFound", <<"service.read">>) EXCEPT !.id = id]
              ELSE [Response("read", u, "ok", <<"service.read">>)
                        EXCEPT !.id = id, !.docs = <<Project(id)>>]
    /\ UNCHANGED <<publicities, created, images>>

\* remove reading a parameter the route does not have: the service gets no id
removeWrongParam(u, id) ==
    IF ~HasPermission(u, "admin") THEN
        /\ res' = [Response("remove", u, "PermissionError", <<"user.hasPermission">>)
                       EXCEPT !.id = id]
        /\ UNCHANGED <<publicities, created, images>>
    ELSE
        /\ res' = [Response("remove", u, "NotFound",
                            <<"user.hasPermission", "service.invalidate">>)
                       EXCEPT !.id = id]
        /\ UNCHANGED <<publicities, created, images>>

\* remove: DELETE /v1/promotion/:promotionId
remove(u, id) ==
    IF ~HasPermission(u, "admin") THEN
        /\ res' = [Response("remove", u, "PermissionError", <<"user.hasPermission">>)
                       EXCEPT !.id = id]
        /\ UNCHANGED <<publicities, created, images>>
    ELSE IF ~ServiceFound(id) THEN
        /\ res' = [Response("remove", u, "NotFound",
                            <<"user.hasPermission", "service.invalidate">>)
                       EXCEPT !.id = id]
        /\ UNCHANGED <<publicities, created, images>>
    ELSE
        /\ publicities' = ServiceInvalidate(id)
        /\ res' = [Response("remove", u, "ok", <<"user.hasPermission", "service.invalidate">>)
                       EXCEPT !.id = id, !.wasEnabled = publicities[id].enabled]
        /\ UNCHANGED <<created, images>>

\* the check without its length test
validateOnlyFalsy(imageId) ==
    IF imageId = Absent THEN <<"image">> ELSE <<>>

\* validateUpdatePromotionPicture(imageId): the paths of the report's messages
validateUpdatePromotionPicture(imageId) ==
    IF imageId = Absent \/ Len(imageId) <= 0 THEN <<"image">> ELSE <<>>

\* updatePromotionPicture that keeps the image only when its identifier is valid
updatePromotionPictureCompensating(u, answer) ==
    /\ images' = IF validateUpdatePromotionPicture(answer) # <<>>
                 THEN images ELSE images \cup {answer}
    /\ res' = IF validateUpdatePromotionPicture(answer) # <<>>
              THEN [Response("picture", u, "ValidationError",
                             <<"imageService.create", "validateUpdatePromotionPicture">>)
                        EXCEPT !.answer = answer,
                               !.errors = validateUpdatePromotionPicture(answer)]
              ELSE [Response("picture", u, "ok",
                             <<"imageService.create", "validateUpdatePromotionPicture">>)
                        EXCEPT !.answer = answer, !.image = answer]
    /\ UNCHANGED <<publicities, created>>

\* updatePromotionPicture: POST /v1/promotion/picture; answer is the identifier
\* imageService.create resolves with, after it wrote the image
updatePromotionPicture(u, answer) ==
    /\ images' = images \cup {answer}
    /\ res' = IF validateUpdatePromotionPicture(answer) # <<>>
              THEN [Response("picture", u, "ValidationError",
                             <<"imageService.create", "validateUpdatePromotionPicture">>)
                        EXCEPT !.answer = answer,
                               !.errors = validateUpdatePromotionPicture(answer)]
              ELSE [Response("picture", u, "ok",
                             <<"imageService.create", "validateUpdatePromotionPicture">>)
                        EXCEPT !.answer = answer, !.image = answer]
    /\ UNCHANGED <<publicities, created>>

\* a route behind onlyLoggedIn answers a request without a session itself
Unauthorized(op, u, id) ==
    /\ ~OnlyLoggedIn(u)
    /\ res' = [Response(op, u, "Unauthorized", <<>>) EXCEPT !.id = id]
    /\ UNCHANGED <<publicities, created, images>>

\* initModule: the routes
Next ==
    \/ \E u \in Callers : OnlyLoggedIn(u) /\ list(u)
    \/ \E u \in Callers, body \in Bodies : OnlyLoggedIn(u) /\ create(u, body)
    \/ \E u \in Callers, id \in RequestIds : read(u, id)
    \/ \E u \in Callers, id \in RequestIds : OnlyLoggedIn(u) /\ remove(u, id)
    \/ \E u \in Callers, answer \in StoreAnswers :
          OnlyLoggedIn(u) /\ updatePromotionPicture(u, answer)
    \/ \E u \in Callers, op \in {"list", "create", "picture"} : Unauthorized(op, u, 0)
    \/ \E u \in Callers, id \in RequestIds : Unauthorized("remove", u, id)

Spec == Init /\ [][Next]_vars

----------------------------------------------------------------------------
(* Helpers of the properties *)

Range(seq) == {seq[k] : k \in 1..Len(seq)}

Admin(u) == OnlyLoggedIn(u) /\ HasPermission(u, "admin")

\* the text fields of a stored document
TextFields(doc) ==
    [title |-> doc.title, description |-> doc.description,
     redirectLink |-> doc.redirectLink, imageId |-> doc.imageId]

\* t is s without its leading and trailing blanks, said without Trim
IsTrimOf(t, s) ==
    /\ t = <<>> \/ (t[1] # " " /\ t[Len(t)] # " ")
    /\ \E l \in 0..Len(s) :
          /\ l + Len(t) <= Len(s)
          /\ t = SubSeq(s, l + 1, l + Len(t))
          /\ \A k \in 1..Len(s) : (k <= l \/ k > l + Len(t)) => s[k] = " "

\* a body field that is missing, or empty once trimmed
Missing(v) == v = Absent \/ \A k \in 1..Len(v) : v[k] = " "

----------------------------------------------------------------------------
(* C1: a create or a remove by a logged-in caller without the "admin"      *)
(* permission answers PermissionError after the permission check alone,    *)
(* and leaves the collection and the image store exactly as they were.     *)

C1_PermissionBeforeMutation ==
    [][(/\ res'.op \in {"create", "remove"}
        /\ OnlyLoggedIn(res'.caller)
        /\ ~HasPermission(res'.caller, "admin"))
       => (/\ res'.status = "PermissionError"
           /\ res'.calls = <<"user.hasPermission">>
           /\ publicities' = publicities
           /\ images' = images)]_vars

C1_Witness ==
    /\ res.op \in {"create", "remove"}
    /\ res.status = "PermissionError"
    /\ \E i \in Ids : publicities[i].enabled

(* C2: what list answers is exactly the enabled documents, each once, with *)
(* its own id, title, description, redirectLink and imageId.               *)

C2_ListOnlyEnabled ==
    (res.op = "list" /\ res.status = "ok") =>
        /\ {res.docs[k].id : k \in 1..Len(res.docs)} = {i \in Ids : publicities[i].enabled}
        /\ \A k, m \in 1..Len(res.docs) : res.docs[k].id = res.docs[m].id => k = m
        /\ \A k \in 1..Len(res.docs) :
              /\ res.docs[k].id \in Ids
              /\ res.docs[k].title = publicities[res.docs[k].id].title
              /\ res.docs[k].imageId = publicities[res.docs[k].id].imageId

C2_Witness ==
    /\ res.op = "list" /\ res.status = "ok"
    /\ Len(res.docs) = 1
    /\ \E i \in Ids : ~publicities[i].enabled

(* C3: a document is created enabled, and once its enabled flag is false   *)
(* no request makes it true again; no request removes a document.          *)

C4_MissingFieldsReported ==
    [][(res'.op = "create" /\ Admin(res'.caller)) =>
          \A f \in {"title", "description", "redirectLink"} :
              Missing(res'.sent[f]) =>
                  /\ res'.status = "ValidationError"
                  /\ f \in Range(res'.errors)
                  /\ publicities' = publicities]_vars

C4_Witness ==
    /\ res.op = "create" /\ res.status = "ValidationError"
    /\ Missing(res.sent.title) /\ Missing(res.sent.description)
    /\ ~Missing(res.sent.redirectLink)
    /\ {"title", "description"} \subseteq Range(res.errors)

(* C5: every stored document has a non-empty title, description,           *)
(* redirectLink and imageId and has an owner; a create whose body carries  *)
(* no imageId never answers ok.                                            *)

C6_InvalidateIdempotent ==
    [][(res'.op = "remove" /\ Admin(res'.caller) /\ res'.id \in Ids) =>
          /\ res'.status = "ok"
          /\ ~publicities'[res'.id].enabled
          /\ publicities' = [publicities EXCEPT ![res'.id].enabled = FALSE]
          /\ (~publicities[res'.id].enabled => publicities' = publicities)]_vars

C6_Witness ==
    /\ res.op = "remove" /\ res.status = "ok"
    /\ ~res.wasEnabled
    /\ ~publicities[res.id].enabled

(* C7: no request deletes a document or changes its text; a read of an     *)
(* existing id answers ok to any caller, logged in or not, with the id and *)
(* the stored text, also when the document is invalidated; a list answers  *)
(* no invalidated document.                                                *)

C9_AttachValidatesIdentifier ==
    [][(res'.op = "picture" /\ OnlyLoggedIn(res'.caller)) =>
          /\ publicities' = publicities
          /\ IF res'.answer = Absent \/ res'.answer = <<>>
             THEN /\ res'.status = "ValidationError"
                  /\ res'.errors = <<"image">>
                  /\ res'.image = Absent
             ELSE /\ res'.status = "ok"
                  /\ res'.errors = <<>>
                  /\ res'.image = res'.answer]_vars

C9_Witness ==
    /\ res.op = "picture" /\ res.status = "ValidationError"
    /\ res.answer = <<>>
    /\ res.errors = <<"image">>
    /\ Len(publicities) > 0

(* C10: an attach writes to the image store before it validates the        *)
(* identifier, and the image stays written when the validation fails; no   *)
(* request ever removes an image of the store.                             *)

C10_ImageWrittenFirstAndKept ==
    [][/\ images \subseteq images'
       /\ (res'.op = "picture" /\ OnlyLoggedIn(res'.caller)) =>
             /\ images' = images \cup {res'.answer}
             /\ res'.calls = <<"imageService.create", "validateUpdatePromotionPicture">>]_vars

C10_Witness ==
    /\ res.op \notin {"picture", "none"}
    /\ Len(publicities) > 0
    /\ <<"j">> \in images
    /\ <<>> \in images
    /\ \A i \in Ids : publicities[i].imageId # <<"j">>

====
